---------------------------- MODULE Spec2Model ----------------------------
(***************************************************************************)
(* Model of src/models/ELBO/elbo.py: the negative Evidence Lower Bound of  *)
(* a VAE, ELBO.forward(x_prime, x, mu, std).                               *)
(*                                                                         *)
(* Numbers.  The program computes in floating point; the model computes    *)
(* in exact arithmetic over the numbers (a + b*ln 2 + c*ln 3) / d with     *)
(* integer a, b, c and d > 0, written <<a, b, c, d>> in lowest terms.      *)
(* Because 1, ln 2 and ln 3 are linearly independent over the rationals,   *)
(* two such numbers are equal exactly when their tuples are equal.  The    *)
(* input values of the model are rationals whose logarithms stay in this   *)
(* field (numerators and denominators are products of 2 and 3).            *)
(*                                                                         *)
(* Tensors.  A 2-D tensor is a sequence of rows, each a sequence of        *)
(* numbers; the 1-D prior is modelled as a tensor of one row, which is     *)
(* how broadcasting treats it.                                             *)
(***************************************************************************)
EXTENDS Integers, Sequences, FiniteSets

----------------------------------------------------------------------------
(* Bounds of the model *)

\* largest leading (batch) dimension of a tensor whose shape is enumerated
MaxBatch == 3
\* largest latent dimension: of latent_size and of the last dimension of mu, std
MaxLatent == 3
\* largest number of features of one sample of x and x_prime
MaxFeat == 4
\* number of elements of the tensors whose values are enumerated in full
MaxElems == 2
\* largest number of copies of a batch that a repeated call concatenates
MaxRepeat == 2

----------------------------------------------------------------------------
(* Exact arithmetic *)

Abs(n) == IF n < 0 THEN -n ELSE n

RECURSIVE GCD(_, _)
GCD(m, n) == IF n = 0 THEN m ELSE GCD(n, m % n)

\* (a + b ln2 + c ln3) / d in lowest terms, d > 0
Norm(a, b, c, d) ==
    LET g == GCD(GCD(Abs(a), Abs(b)), GCD(Abs(c), d))
    IN  <<a \div g, b \div g, c \div g, d \div g>>

\* the rational n / d, d > 0
Q(n, d) == Norm(n, 0, 0, d)

Zero == Q(0, 1)
One == Q(1, 1)

IsRat(u) == u[2] = 0 /\ u[3] = 0

Add(u, v) ==
    Norm(u[1] * v[4] + v[1] * u[4], u[2] * v[4] + v[2] * u[4],
         u[3] * v[4] + v[3] * u[4], u[4] * v[4])

Neg(u) == <<-u[1], -u[2], -u[3], u[4]>>

Sub(u, v) == Add(u, Neg(v))

\* product; at least one factor is rational in every use the program makes
Mul(u, v) ==
    IF IsRat(u)
    THEN Norm(u[1] * v[1], u[1] * v[2], u[1] * v[3], u[4] * v[4])
    ELSE Norm(v[1] * u[1], v[1] * u[2], v[1] * u[3], u[4] * v[4])

\* reciprocal of a rational other than 0
Inv(q) == IF q[1] > 0 THEN <<q[4], 0, 0, q[1]>> ELSE <<-q[4], 0, 0, -q[1]>>

Div(u, q) == Mul(u, Inv(q))

Square(q) == Mul(q, q)

\* the exponent of the prime p in n >= 1
RECURSIVE Val(_, _)
Val(n, p) == IF n % p = 0 THEN 1 + Val(n \div p, p) ELSE 0

\* natural logarithm of a rational q > 0 whose numerator and denominator
\* are products of 2 and 3
Log(q) == <<Val(q[1], 2) - Val(q[4], 2), Val(q[1], 3) - Val(q[4], 3)>>

LogNum(q) == <<0, Log(q)[1], Log(q)[2], 1>>

\* sign of a number: -1, 0 or 1; that of a rational is the sign of its
\* numerator, any other is decided with 0.6931 < ln 2 < 0.6932 and
\* 1.0986 < ln 3 < 1.0987; 2 when these enclosures do not decide it
Sign(u) ==
    IF IsRat(u) THEN (IF u[1] > 0 THEN 1 ELSE IF u[1] < 0 THEN -1 ELSE 0)
    ELSE LET lo == u[1] * 10000 + u[2] * (IF u[2] >= 0 THEN 6931 ELSE 6932)
                                + u[3] * (IF u[3] >= 0 THEN 10986 ELSE 10987)
             hi == u[1] * 10000 + u[2] * (IF u[2] >= 0 THEN 6932 ELSE 6931)
                                + u[3] * (IF u[3] >= 0 THEN 10987 ELSE 10986)
         IN  IF lo > 0 THEN 1 ELSE IF hi < 0 THEN -1 ELSE 2

Less(u, v) ==
    IF IsRat(u) /\ IsRat(v) THEN u[1] * v[4] < v[1] * u[4] ELSE Sign(Sub(v, u)) = 1

Leq(u, v) ==
    IF IsRat(u) /\ IsRat(v) THEN u[1] * v[4] <= v[1] * u[4] ELSE Sign(Sub(v, u)) \in {0, 1}

MaxNum(u, v) == IF Less(u, v) THEN v ELSE u

----------------------------------------------------------------------------
(* Tensors *)

Rows(t) == Len(t)
Cols(t) == Len(t[1])
Shape(t) == <<Rows(t), Cols(t)>>

\* the B x L tensor filled with v (torch.zeros, torch.ones, a constant input)
Fill(B, L, v) == [i \in 1..B |-> [j \in 1..L |-> v]]

\* all B x L tensors with entries in S
Tensors(B, L, S) == [1..B -> [1..L -> S]]

\* broadcasting: the element of t that element (i, j) of the broadcast reads
At(t, i, j) == t[IF Rows(t) = 1 THEN 1 ELSE i][IF Cols(t) = 1 THEN 1 ELSE j]

\* one dimension of a broadcast shape; 0 when the sizes cannot be broadcast
BroadcastDim(m, n) == IF m = n THEN m ELSE IF m = 1 THEN n ELSE IF n = 1 THEN m ELSE 0

BroadcastShape(s, t) == <<BroadcastDim(s[1], t[1]), BroadcastDim(s[2], t[2])>>

Broadcastable(s, t) == BroadcastShape(s, t)[1] # 0 /\ BroadcastShape(s, t)[2] # 0

\* t expanded to shape s
Expand(t, s) == [i \in 1..s[1] |-> [j \in 1..s[2] |-> At(t, i, j)]]

RECURSIVE SumSeq(_)
SumSeq(r) == IF r = <<>> THEN Zero ELSE Add(r[1], SumSeq(Tail(r)))

RECURSIVE SumAll(_)
SumAll(t) == IF t = <<>> THEN Zero ELSE Add(SumSeq(t[1]), SumAll(Tail(t)))

\* torch.cat([t] * k): k copies of the batch along the leading dimension
RECURSIVE Repeat(_, _)
Repeat(t, k) == IF k = 1 THEN t ELSE t \o Repeat(t, k - 1)


----------------------------------------------------------------------------
(* The library functions forward calls, as torch computes them *)

\* mutant: the closed form without its "- 1"
KLNormalNormalNoMinusOne(p_loc, p_scale, q_loc, q_scale) ==
    LET var_ratio == Square(Div(p_scale, q_scale))
        t1 == Square(Div(Sub(p_loc, q_loc), q_scale))
    IN  Mul(Q(1, 2), Sub(Add(var_ratio, t1), LogNum(var_ratio)))

\* mutant: the logarithm added instead of subtracted
KLNormalNormalPlusLog(p_loc, p_scale, q_loc, q_scale) ==
    LET var_ratio == Square(Div(p_scale, q_scale))
        t1 == Square(Div(Sub(p_loc, q_loc), q_scale))
    IN  Mul(Q(1, 2), Add(Sub(Add(var_ratio, t1), One), LogNum(var_ratio)))

\* torch.distributions.kl._kl_normal_normal(p, q) for one element:
\*   var_ratio = (p.scale / q.scale).pow(2)
\*   t1 = ((p.loc - q.loc) / q.scale).pow(2)
\*   0.5 * (var_ratio + t1 - 1 - var_ratio.log())
KLNormalNormal(p_loc, p_scale, q_loc, q_scale) ==
    LET var_ratio == Square(Div(p_scale, q_scale))
        t1 == Square(Div(Sub(p_loc, q_loc), q_scale))
    IN  Mul(Q(1, 2), Sub(Sub(Add(var_ratio, t1), One), LogNum(var_ratio)))

\* dist.kl_divergence(p, q) of two Normal distributions, element by element
\* over the broadcast of their shapes (the shapes are broadcastable)
KLDivergenceTensor(p, q) ==
    LET s == BroadcastShape(Shape(p.loc), Shape(q.loc))
    IN  [i \in 1..s[1] |-> [j \in 1..s[2] |->
            KLNormalNormal(At(p.loc, i, j), At(p.scale, i, j),
                           At(q.loc, i, j), At(q.scale, i, j))]]

\* F.binary_cross_entropy clamps each logarithm from below at -100
LogClamp == Q(-100, 1)

ClampLog(q) == IF Sign(q) = 0 THEN LogClamp ELSE MaxNum(LogNum(q), LogClamp)

\* binary cross-entropy of one element, input in [0, 1]:
\*   -(target * log(input) + (1 - target) * log(1 - input))
BCEElement(input, target) ==
    Neg(Add(Mul(target, ClampLog(input)),
            Mul(Sub(One, target), ClampLog(Sub(One, input)))))

\* F.binary_cross_entropy(input, target, reduction='sum'), equal shapes
BCESum(input, target) ==
    SumAll([i \in 1..Rows(input) |-> [j \in 1..Cols(input) |->
                BCEElement(input[i][j], target[i][j])]])

\* Normal(loc, scale) validates scale > 0 in every element
ScalePositive(scale) ==
    \A i \in 1..Rows(scale) : \A j \in 1..Cols(scale) : Sign(scale[i][j]) = 1

\* the binary cross-entropy kernel requires 0 <= input <= 1 in every element
InputInUnitInterval(input) ==
    \A i \in 1..Rows(input) : \A j \in 1..Cols(input) :
        Leq(Zero, input[i][j]) /\ Leq(input[i][j], One)

----------------------------------------------------------------------------
(* State *)

\* the callers that hold a reference to the one ELBO instance
Callers == {"a", "b"}

VARIABLES
    latent_size,   \* self.latent_size of the instance
    calls          \* per caller: the frame of its call of forward

vars == <<latent_size, calls>>

\* a local that is not assigned yet
NoValue == <<>>

\* the frame of forward(x_prime, x, mu, std) on entry
Frame(x_prime, x, mu, std, prev, copies) ==
    [pc |-> "L55", x_prime |-> x_prime, x |-> x, mu |-> mu, std |-> std,
     prior |-> NoValue, variational |-> NoValue, kl |-> NoValue,
     first_term |-> NoValue, second_term |-> NoValue, elbo |-> NoValue,
     exc |-> "none", ret |-> NoValue, prev |-> prev, copies |-> copies]

\* a caller that makes no call
Idle == [Frame(NoValue, NoValue, NoValue, NoValue, NoValue, 1) EXCEPT !.pc = "idle"]

\* an exception leaves forward
Raise(f, e) == [f EXCEPT !.pc = "raised", !.exc = e]

----------------------------------------------------------------------------
(* forward, statement by statement *)

\* mutant: the instance adopts the last dimension of mu as its latent_size
MakePriorAdapting(self) ==
    /\ calls[self].pc = "L55"
    /\ latent_size' = Cols(calls[self].mu)
    /\ calls' = [calls EXCEPT ![self] =
                    [@ EXCEPT !.pc = "L57",
                              !.prior = [loc |-> Fill(1, latent_size', Zero),
                                         scale |-> Fill(1, latent_size', One)]]]

\* mutant: the prior takes its size from mu instead of latent_size
MakePriorFromMu(self) ==
    /\ calls[self].pc = "L55"
    /\ calls' = [calls EXCEPT ![self] =
                    [@ EXCEPT !.pc = "L57",
                              !.prior = [loc |-> Fill(1, Cols(calls[self].mu), Zero),
                                         scale |-> Fill(1, Cols(calls[self].mu), One)]]]
    /\ UNCHANGED latent_size

\* lines 55-56: prior_mu, prior_std = zeros(latent_size), ones(latent_size);
\* prior = dist.Normal(prior_mu, prior_std)
MakePrior(self) ==
    /\ calls[self].pc = "L55"
    /\ calls' = [calls EXCEPT ![self] =
                    [@ EXCEPT !.pc = "L57",
                              !.prior = [loc |-> Fill(1, latent_size, Zero),
                                         scale |-> Fill(1, latent_size, One)]]]
    /\ UNCHANGED latent_size

\* line 57: variational = dist.Normal(mu, std); the constructor broadcasts
\* mu and std against each other and then validates std > 0
MakeVariational(self) ==
    LET f == calls[self]
        s == BroadcastShape(Shape(f.mu), Shape(f.std))
    IN  /\ f.pc = "L57"
        /\ calls' = [calls EXCEPT ![self] =
              IF ~Broadcastable(Shape(f.mu), Shape(f.std))
              THEN Raise(f, "RuntimeError")
              ELSE IF ~ScalePositive(Expand(f.std, s))
              THEN Raise(f, "ValueError")
              ELSE [f EXCEPT !.pc = "L58",
                             !.variational = [loc |-> Expand(f.mu, s),
                                              scale |-> Expand(f.std, s)]]]
        /\ UNCHANGED latent_size

\* mutant: dist.kl_divergence(prior, variational), the arguments swapped
KLDivergenceSwapped(self) ==
    LET f == calls[self]
        kl == KLDivergenceTensor(f.prior, f.variational)
    IN  /\ f.pc = "L58"
        /\ calls' = [calls EXCEPT ![self] =
              IF ~Broadcastable(Shape(f.variational.loc), Shape(f.prior.loc))
              THEN Raise(f, "RuntimeError")
              ELSE [f EXCEPT !.pc = "L59", !.kl = kl, !.first_term = SumAll(kl)]]
        /\ UNCHANGED latent_size

\* line 58: first_term = dist.kl_divergence(variational, prior).sum()
KLDivergence(self) ==
    LET f == calls[self]
        kl == KLDivergenceTensor(f.variational, f.prior)
    IN  /\ f.pc = "L58"
        /\ calls' = [calls EXCEPT ![self] =
              IF ~Broadcastable(Shape(f.variational.loc), Shape(f.prior.loc))
              THEN Raise(f, "RuntimeError")
              ELSE [f EXCEPT !.pc = "L59", !.kl = kl, !.first_term = SumAll(kl)]]
        /\ UNCHANGED latent_size

\* mutant: line 59 left out, the summed KL is not divided
DivideFirstSkipped(self) ==
    LET f == calls[self]
    IN  /\ f.pc = "L59"
        /\ calls' = [calls EXCEPT ![self] = [f EXCEPT !.pc = "L62"]]
        /\ UNCHANGED latent_size

\* mutant: first_term /= mu.shape[0]
DivideFirstByPosteriorBatch(self) ==
    LET f == calls[self]
    IN  /\ f.pc = "L59"
        /\ calls' = [calls EXCEPT ![self] =
              [f EXCEPT !.pc = "L62",
                        !.first_term = Div(f.first_term, Q(Rows(f.mu), 1))]]
        /\ UNCHANGED latent_size

\* line 59: first_term /= x.shape[0]
DivideFirst(self) ==
    LET f == calls[self]
    IN  /\ f.pc = "L59"
        /\ calls' = [calls EXCEPT ![self] =
              [f EXCEPT !.pc = "L62",
                        !.first_term = Div(f.first_term, Q(Rows(f.x), 1))]]
        /\ UNCHANGED latent_size

\* mutant: reduction='mean', the default of F.binary_cross_entropy
BinaryCrossEntropyMean(self) ==
    LET f == calls[self]
    IN  /\ f.pc = "L62"
        /\ calls' = [calls EXCEPT ![self] =
              IF Shape(f.x_prime) # Shape(f.x)
              THEN Raise(f, "ValueError")
              ELSE IF ~InputInUnitInterval(f.x_prime)
              THEN Raise(f, "RuntimeError")
              ELSE [f EXCEPT !.pc = "L63",
                             !.second_term = Div(BCESum(f.x_prime, f.x),
                                                 Q(Rows(f.x) * Cols(f.x), 1))]]
        /\ UNCHANGED latent_size

\* mutant: F.binary_cross_entropy(x, x_prime), prediction and target swapped
BinaryCrossEntropySwapped(self) ==
    LET f == calls[self]
    IN  /\ f.pc = "L62"
        /\ calls' = [calls EXCEPT ![self] =
              IF Shape(f.x_prime) # Shape(f.x)
              THEN Raise(f, "ValueError")
              ELSE IF ~InputInUnitInterval(f.x)
              THEN Raise(f, "RuntimeError")
              ELSE [f EXCEPT !.pc = "L63",
                             !.second_term = BCESum(f.x, f.x_prime)]]
        /\ UNCHANGED latent_size

\* mutant: a binary cross-entropy that does not check the range of its input
BinaryCrossEntropyUnchecked(self) ==
    LET f == calls[self]
    IN  /\ f.pc = "L62"
        /\ calls' = [calls EXCEPT ![self] =
              IF Shape(f.x_prime) # Shape(f.x)
              THEN Raise(f, "ValueError")
              ELSE [f EXCEPT !.pc = "L63",
                             !.second_term = BCESum(f.x_prime, f.x)]]
        /\ UNCHANGED latent_size

\* line 62: second_term = F.binary_cross_entropy(x_prime, x, reduction='sum');
\* the function requires equal sizes and an input in [0, 1]
BinaryCrossEntropy(self) ==
    LET f == calls[self]
    IN  /\ f.pc = "L62"
        /\ calls' = [calls EXCEPT ![self] =
              IF Shape(f.x_prime) # Shape(f.x)
              THEN Raise(f, "ValueError")
              ELSE IF ~InputInUnitInterval(f.x_prime)
              THEN Raise(f, "RuntimeError")
              ELSE [f EXCEPT !.pc = "L63",
                             !.second_term = BCESum(f.x_prime, f.x)]]
        /\ UNCHANGED latent_size

\* line 63: second_term /= x.shape[0]
DivideSecond(self) ==
    LET f == calls[self]
    IN  /\ f.pc = "L63"
        /\ calls' = [calls EXCEPT ![self] =
              [f EXCEPT !.pc = "L71",
                        !.second_term = Div(f.second_term, Q(Rows(f.x), 1))]]
        /\ UNCHANGED latent_size

\* line 71: elbo = first_term + second_term
AddTerms(self) ==
    LET f == calls[self]
    IN  /\ f.pc = "L71"
        /\ calls' = [calls EXCEPT ![self] =
              [f EXCEPT !.pc = "L73", !.elbo = Add(f.first_term, f.second_term)]]
        /\ UNCHANGED latent_size

\* line 73: return elbo
Return(self) ==
    LET f == calls[self]
    IN  /\ f.pc = "L73"
        /\ calls' = [calls EXCEPT ![self] = [f EXCEPT !.pc = "done", !.ret = f.elbo]]
        /\ UNCHANGED latent_size

\* The caller calls forward again, on k copies of each of its four tensors
\* concatenated along the batch dimension (k = 1: on the same tensors), and
\* keeps the outcome of the call before and the number of copies it was on.
Recall(self, k) ==
    LET f == calls[self]
    IN  /\ f.pc \in {"done", "raised"}
        /\ f.copies * k <= MaxRepeat
        /\ calls' = [calls EXCEPT ![self] =
              Frame(Repeat(f.x_prime, k), Repeat(f.x, k), Repeat(f.mu, k),
                    Repeat(f.std, k),
                    [exc |-> f.exc, ret |-> f.ret, copies |-> f.copies], f.copies * k)]
        /\ UNCHANGED latent_size

Next ==
    \E self \in Callers :
        \/ MakePrior(self)
        \/ MakeVariational(self)
        \/ KLDivergence(self)
        \/ DivideFirst(self)
        \/ BinaryCrossEntropy(self)
        \/ DivideSecond(self)
        \/ AddTerms(self)
        \/ Return(self)
        \/ \E k \in 1..MaxRepeat : Recall(self, k)

----------------------------------------------------------------------------
(* Inputs *)

MuVals == {Q(-1, 1), Q(0, 1)}
StdVals == {Q(1, 2), Q(1, 1), Q(3, 2), Q(2, 1)}
BadStdVals == {Q(0, 1), Q(-1, 2)}
ProbVals == {Q(0, 1), Q(1, 4), Q(1, 2), Q(1, 1)}
TargetVals == {Q(0, 1), Q(1, 2), Q(1, 1)}
BadProbVals == {Q(-1, 4), Q(3, 2)}

Half == Q(1, 2)

Input(x_prime, x, mu, std) == [x_prime |-> x_prime, x |-> x, mu |-> mu, std |-> std]

\* the shapes (B, L) of at most MaxElems elements
SmallShapes == {s \in (1..MaxElems) \X (1..MaxElems) : s[1] * s[2] <= MaxElems}

\* every valid posterior of shape (B, L) with at most MaxElems elements; the
\* reconstruction and the target are one feature of 0.5 per sample
PosteriorVaried(L) ==
    UNION { { Input(Fill(s[1], 1, Half), Fill(s[1], 1, Half), m, d) :
                m \in Tensors(s[1], L, MuVals), d \in Tensors(s[1], L, StdVals) }
            : s \in {t \in SmallShapes : t[2] = L} }

\* the end-to-end example: latent_size = 2, B = 1, mu = [0, 0], std = [1, 1],
\* four elements with x_prime = x = 0.5
Example == Input(Fill(1, 4, Half), Fill(1, 4, Half), Fill(1, 2, Zero), Fill(1, 2, One))

\* every valid reconstruction and target of at most MaxElems elements; the
\* posterior is mu = 1, std = 2 in one latent dimension
ReconVaried(L) ==
    IF L # 1 THEN {}
    ELSE UNION { { Input(p, t, Fill(s[1], 1, One), Fill(s[1], 1, Q(2, 1))) :
                     p \in Tensors(s[1], s[2], ProbVals),
                     t \in Tensors(s[1], s[2], TargetVals) }
                 : s \in SmallShapes }

\* every shape of mu and std and every batch size of x, values held constant
PosteriorShapes(L) ==
    { Input(Fill(Bx, 1, Half), Fill(Bx, 1, Half),
            Fill(Sm[1], Sm[2], One), Fill(Ss[1], Ss[2], Q(2, 1))) :
        Sm \in (1..MaxBatch) \X (1..MaxLatent),
        Ss \in (1..MaxBatch) \X (1..MaxLatent),
        Bx \in 1..MaxBatch }

\* every shape of x_prime and x, values held constant
ReconShapes(L) ==
    { Input(Fill(Sp[1], Sp[2], Half), Fill(Sx[1], Sx[2], Half),
            Fill(Sx[1], L, Zero), Fill(Sx[1], L, One)) :
        Sp \in (1..MaxBatch) \X (1..MaxFeat),
        Sx \in (1..MaxBatch) \X (1..MaxFeat) }

\* posteriors of at most MaxElems elements with a std that is not positive
StdViolations(L) ==
    UNION { { Input(Fill(s[1], 1, Half), Fill(s[1], 1, Half), Fill(s[1], L, Zero), d) :
                d \in Tensors(s[1], L, {One} \cup BadStdVals) }
            : s \in {t \in SmallShapes : t[2] = L} }

\* one-element reconstruction and target, also outside [0, 1]
RangeViolations(L) ==
    { Input(p, t, Fill(1, L, Zero), Fill(1, L, One)) :
        p \in Tensors(1, 1, ProbVals \cup BadProbVals),
        t \in Tensors(1, 1, ProbVals \cup BadProbVals) }

Start(inp) == Frame(inp.x_prime, inp.x, inp.mu, inp.std, NoValue, 1)

\* one caller makes a first call, the other none
FirstCall(inp) == calls = [c \in Callers |-> IF c = "a" THEN Start(inp) ELSE Idle]

\* calls that keep the contract of forward
ValidCalls(L) ==
    PosteriorVaried(L) \cup ReconVaried(L) \cup (IF L = 2 THEN {Example} ELSE {})
Init ==
    /\ latent_size \in 1..MaxLatent
    /\ \E inp \in ValidCalls(latent_size) : FirstCall(inp)
Spec == Init /\ [][Next]_vars

\* the posterior varies
InitPosterior ==
    /\ latent_size \in 1..MaxLatent
    /\ \E inp \in PosteriorVaried(latent_size) : FirstCall(inp)
SpecPosterior == InitPosterior /\ [][Next]_vars

\* the reconstruction and the target vary
InitRecon ==
    /\ latent_size \in 1..MaxLatent
    /\ \E inp \in ReconVaried(latent_size) : FirstCall(inp)
SpecRecon == InitRecon /\ [][Next]_vars

\* the shapes vary and the values leave their ranges
AnyCalls(L) ==
    PosteriorShapes(L) \cup ReconShapes(L) \cup StdViolations(L) \cup RangeViolations(L)
InitAny ==
    /\ latent_size \in 1..MaxLatent
    /\ \E inp \in AnyCalls(latent_size) : FirstCall(inp)
SpecAny == InitAny /\ [][Next]_vars

----------------------------------------------------------------------------
(* Two callers share the instance and call forward concurrently *)

SharedInputs(L) ==
    { Input(Fill(1, 1, Q(1, 4)), Fill(1, 1, One), Fill(1, L, One), Fill(1, L, Q(2, 1))),
      Input(Fill(2, 1, Half), Fill(2, 1, Half), Fill(2, L, Zero), Fill(2, L, Half)),
      Input(Fill(1, 1, Half), Fill(1, 1, Half), Fill(1, 1, One), Fill(1, 1, Q(2, 1))),
      Input(Fill(1, 1, Half), Fill(1, 1, Half), Fill(1, L, Zero), Fill(1, L, Zero)) }

InitShared ==
    /\ latent_size \in 1..MaxLatent
    /\ calls \in [Callers -> {Start(inp) : inp \in SharedInputs(latent_size)}]

SpecShared == InitShared /\ [][Next]_vars

----------------------------------------------------------------------------
(* Vocabulary of the properties *)

Elems(t) == {<<i, j>> : i \in 1..Rows(t), j \in 1..Cols(t)}

Done(f) == f.pc = "done"
Raised(f) == f.pc = "raised"
Active(f) == f.pc # "idle"

\* dist.kl_divergence has returned
HasKL(f) == f.kl # NoValue
\* line 59 has run
Averaged(f) == f.pc \in {"L62", "L63", "L71", "L73", "done"} \/ (Raised(f) /\ HasKL(f))

InUnit(q) == Leq(Zero, q) /\ Leq(q, One)
AllInUnit(t) == \A e \in Elems(t) : InUnit(t[e[1]][e[2]])

\* the contract of forward: std > 0, x_prime and x in [0, 1] with equal
\* shapes, mu and std of shape (B, latent_size) with B = x.shape[0]
ValidInputs(f) ==
    /\ Shape(f.mu) = <<Rows(f.x), latent_size>>
    /\ Shape(f.std) = Shape(f.mu)
    /\ ScalePositive(f.std)
    /\ Shape(f.x_prime) = Shape(f.x)
    /\ AllInUnit(f.x_prime) /\ AllInUnit(f.x)

\* every numeric comparison the model made was decided by the enclosures of
\* ln 2 and ln 3
SignsDecided ==
    \A c \in Callers :
        LET f == calls[c]
        IN  /\ HasKL(f) => \A e \in Elems(f.kl) : Sign(f.kl[e[1]][e[2]]) # 2
            /\ f.first_term # NoValue => Sign(f.first_term) # 2
            /\ f.second_term # NoValue => Sign(f.second_term) # 2
            /\ f.elbo # NoValue => Sign(f.elbo) # 2

----------------------------------------------------------------------------
(* C1: the returned value *)

\* closed form of KL(Normal(m, s) || Normal(0, 1)): (s^2 + m^2 - 1)/2 - ln s
ClosedKL(m, s) ==
    Sub(Mul(Q(1, 2), Sub(Add(Square(s), Square(m)), One)), LogNum(s))

\* binary cross-entropy of one element: -t ln p - (1 - t) ln (1 - p)
CrossEntropy(p, t) ==
    Sub(Mul(Neg(t), ClampLog(p)), Mul(Sub(One, t), ClampLog(Sub(One, p))))

\* the sum of Op-terms over the index set S, for S a set of index pairs
RECURSIVE SumClosedKL(_, _, _)
SumClosedKL(S, mu, std) ==
    IF S = {} THEN Zero
    ELSE LET e == CHOOSE e \in S : TRUE
         IN  Add(ClosedKL(mu[e[1]][e[2]], std[e[1]][e[2]]), SumClosedKL(S \ {e}, mu, std))

RECURSIVE SumCrossEntropy(_, _, _)
SumCrossEntropy(S, x_prime, x) ==
    IF S = {} THEN Zero
    ELSE LET e == CHOOSE e \in S : TRUE
         IN  Add(CrossEntropy(x_prime[e[1]][e[2]], x[e[1]][e[2]]),
                 SumCrossEntropy(S \ {e}, x_prime, x))

Regularization(f) == Div(SumClosedKL(Elems(f.mu), f.mu, f.std), Q(Rows(f.x), 1))

Reconstruction(f) == Div(SumCrossEntropy(Elems(f.x), f.x_prime, f.x), Q(Rows(f.x), 1))

IsExample(f) ==
    latent_size = 2 /\ Input(f.x_prime, f.x, f.mu, f.std) = Example

FourLn2 == <<0, 4, 0, 1>>

\* C1: a call with valid inputs returns regularization_term +
\* reconstruction_term, the first the closed-form KL(Normal(mu, std) ||
\* Normal(0, 1)) summed over batch and latent dimensions and divided by B,
\* the second the binary cross-entropy summed over all elements and divided
\* by B; the example returns 0 + 4 ln 2.
C1_ReturnsSumOfTerms ==
    \A c \in Callers :
        LET f == calls[c]
        IN  (Done(f) \/ Raised(f)) /\ ValidInputs(f) =>
              /\ ~Raised(f)
              /\ Done(f) =>
                    /\ f.first_term = Regularization(f)
                    /\ f.second_term = Reconstruction(f)
                    /\ f.ret = Add(f.first_term, f.second_term)
                    /\ IsExample(f) => f.first_term = Zero /\ f.ret = FourLn2

C1_Witness ==
    LET f == calls["a"]
    IN  Done(f) /\ IsExample(f) /\ f.ret = FourLn2 /\ f.prev = NoValue

----------------------------------------------------------------------------
(* C2: the order of the arguments of the KL divergence *)

\* the regularization term with the arguments swapped, KL(prior || posterior)
SwappedKL(f) == KLDivergenceTensor(f.prior, f.variational)
\* its element (i, j)
SwappedKLAt(f, i, j) ==
    KLNormalNormal(At(f.prior.loc, i, j), At(f.prior.scale, i, j),
                   At(f.variational.loc, i, j), At(f.variational.scale, i, j))
SwappedFirstTerm(f) == Div(SumAll(SwappedKL(f)), Q(Rows(f.x), 1))

PosteriorIsPrior(f) ==
    \A e \in Elems(f.variational.loc) :
        f.variational.loc[e[1]][e[2]] = Zero /\ f.variational.scale[e[1]][e[2]] = One

\* C2 as claimed: for every posterior with std > 0 that is not the prior,
\* KL(prior || posterior) gives a regularization term other than the one of
\* KL(posterior || prior).
C2_SwapAlwaysDiffers ==
    \A c \in Callers :
        LET f == calls[c]
        IN  Averaged(f) /\ ~PosteriorIsPrior(f) => f.first_term # SwappedFirstTerm(f)

\* C2 as it holds: the two orders give different values for an element
\* exactly when its std is not 1 (with std = 1 both give mu^2 / 2), and the
\* regularization terms differ when no std is below 1, or none above 1, and
\* some std is not 1.
C2_SwapDiffersIffStdNotOne ==
    \A c \in Callers :
        LET f == calls[c]
            loc == f.variational.loc
            scale == f.variational.scale
        IN  HasKL(f) =>
              /\ \A e \in Elems(f.kl) :
                    (f.kl[e[1]][e[2]] # SwappedKLAt(f, e[1], e[2]))
                        <=> (At(scale, e[1], e[2]) # One)
              /\ \A e \in Elems(f.kl) :
                    At(scale, e[1], e[2]) = One =>
                        f.kl[e[1]][e[2]] = Mul(Q(1, 2), Square(At(loc, e[1], e[2])))
              /\ ( /\ Done(f)
                   /\ \E e \in Elems(scale) : scale[e[1]][e[2]] # One
                   /\ \/ \A e \in Elems(scale) : Leq(One, scale[e[1]][e[2]])
                      \/ \A e \in Elems(scale) : Leq(scale[e[1]][e[2]], One) )
                 => f.first_term # SwappedFirstTerm(f)

C2_Witness ==
    LET f == calls["a"]
    IN  /\ Done(f) /\ ValidInputs(f) /\ Shape(f.kl) = <<1, 2>>
        /\ f.variational.scale[1][1] = One /\ f.variational.loc[1][1] = Q(-1, 1)
        /\ f.kl[1][1] = SwappedKLAt(f, 1, 1)
        /\ f.variational.scale[1][2] = Q(2, 1)
        /\ f.kl[1][2] # SwappedKLAt(f, 1, 2)

----------------------------------------------------------------------------
(* C3: precondition violations *)

Outcome(f) ==
    LET s == BroadcastShape(Shape(f.mu), Shape(f.std))
    IN  IF ~Broadcastable(Shape(f.mu), Shape(f.std)) THEN "RuntimeError"
        ELSE IF \E e \in Elems(f.std) : Sign(f.std[e[1]][e[2]]) # 1 THEN "ValueError"
        ELSE IF ~Broadcastable(s, <<1, latent_size>>) THEN "RuntimeError"
        ELSE IF Shape(f.x_prime) # Shape(f.x) THEN "ValueError"
        ELSE IF ~AllInUnit(f.x_prime) THEN "RuntimeError"
        ELSE "none"

C3_TargetOutOfRangeReturns ==
    LET f == calls["a"]
    IN  Done(f) /\ ~AllInUnit(f.x) /\ AllInUnit(f.x_prime)

----------------------------------------------------------------------------
(* C4: repeating the batch *)

\* C4: a call on k copies of a batch returns what the call on the batch
\* returned; with valid inputs the repeated call returns.
C4_RepeatedBatchSameValue ==
    \A c \in Callers :
        LET f == calls[c]
        IN  Active(f) /\ f.prev # NoValue /\ f.prev.exc = "none" =>
              /\ Done(f) => f.ret = f.prev.ret
              /\ Raised(f) => ~ValidInputs(f)

C4_Witness ==
    LET f == calls["a"]
    IN  /\ Done(f) /\ ValidInputs(f) /\ f.copies = 2 /\ Rows(f.x) = 4
        /\ f.prev # NoValue /\ f.prev.ret = f.ret
        /\ Sign(f.first_term) = 1 /\ Sign(f.second_term) = 1

----------------------------------------------------------------------------
(* C5: the posterior that is the prior *)

IsPriorPosterior(f) ==
    /\ \A e \in Elems(f.mu) : f.mu[e[1]][e[2]] = Zero
    /\ \A e \in Elems(f.std) : f.std[e[1]][e[2]] = One

\* C5: with mu = 0 and std = 1 throughout, every KL value is exactly 0, the
\* regularization term is 0 and the returned value is the reconstruction
\* term alone.
C5_PriorPosteriorZeroKL ==
    \A c \in Callers :
        LET f == calls[c]
        IN  Active(f) /\ IsPriorPosterior(f) =>
              /\ HasKL(f) => /\ \A e \in Elems(f.kl) : f.kl[e[1]][e[2]] = Zero
                             /\ f.first_term = Zero
              /\ Done(f) => f.ret = f.second_term

C5_Witness ==
    LET f == calls["a"]
    IN  /\ Done(f) /\ IsPriorPosterior(f) /\ ValidInputs(f) /\ Shape(f.kl) = <<2, 1>>
        /\ f.first_term = Zero /\ f.ret = f.second_term /\ Sign(f.ret) = 1

----------------------------------------------------------------------------
(* C6: the KL divergence is not negative *)

NonNegative(u) == Sign(u) \in {0, 1}

\* C6: once the posterior is accepted (every std > 0), each KL value is
\* >= 0, and so is the regularization term, before and after the division.
C6_KLNonNegative ==
    \A c \in Callers :
        LET f == calls[c]
        IN  HasKL(f) =>
              /\ \A e \in Elems(f.kl) : NonNegative(f.kl[e[1]][e[2]])
              /\ NonNegative(f.first_term)

C6_Witness ==
    LET f == calls["a"]
    IN  /\ Done(f) /\ ValidInputs(f) /\ Shape(f.kl) = <<2, 1>>
        /\ f.std[1][1] = Half /\ f.std[2][1] = Q(2, 1)
        /\ Sign(f.kl[1][1]) = 1 /\ Sign(f.kl[2][1]) = 1 /\ Sign(f.first_term) = 1

----------------------------------------------------------------------------
(* C7: the reconstruction term *)

\* q lies between p and t
Between(p, q, t) == (Leq(p, q) /\ Leq(q, t)) \/ (Leq(t, q) /\ Leq(q, p))

\* tensor t with element e set to q
Poke(t, e, q) == [t EXCEPT ![e[1]][e[2]] = q]

\* C7: for x_prime and x in [0, 1] the reconstruction term is 0 exactly when
\* every x_prime element equals its target and that value is 0 or 1, and is
\* positive otherwise; moving one x_prime element to a value between it and
\* its target does not increase the term (compared on the batches of at
\* most MaxElems elements, against the binary cross-entropy of the moved
\* batch).
C7_ReconstructionTerm ==
    \A c \in Callers :
        LET f == calls[c]
        IN  Done(f) /\ AllInUnit(f.x_prime) /\ AllInUnit(f.x) =>
              /\ NonNegative(f.second_term)
              /\ (f.second_term = Zero) <=>
                    \A e \in Elems(f.x) :
                        /\ f.x_prime[e[1]][e[2]] = f.x[e[1]][e[2]]
                        /\ f.x[e[1]][e[2]] \in {Zero, One}
              /\ Rows(f.x) * Cols(f.x) <= MaxElems =>
                    \A e \in Elems(f.x) : \A q \in ProbVals \ {f.x_prime[e[1]][e[2]]} :
                        Between(f.x_prime[e[1]][e[2]], q, f.x[e[1]][e[2]]) =>
                            \E moved \in {Div(BCESum(Poke(f.x_prime, e, q), f.x),
                                              Q(Rows(f.x), 1))} :
                                Leq(moved, f.second_term)

C7_Witness ==
    LET f == calls["a"]
    IN  /\ Done(f) /\ Shape(f.x) = <<1, 2>> /\ f.x_prime = f.x
        /\ f.x[1][1] = Half /\ f.x[1][2] = One
        /\ Sign(f.second_term) = 1

----------------------------------------------------------------------------
(* C8: no state is shared or carried over *)

SameInputs(f, g) ==
    f.x_prime = g.x_prime /\ f.x = g.x /\ f.mu = g.mu /\ f.std = g.std

\* the outcome of a finished call
Result(f) == [exc |-> f.exc, ret |-> f.ret]

\* calls with equal inputs end alike, whatever ran before or between: two
\* callers' calls, and a caller's call and its call before on the same tensors
EqualInputsEqualResults ==
    /\ \A c, d \in Callers :
          /\ calls[c].pc \in {"done", "raised"}
          /\ calls[d].pc \in {"done", "raised"}
          /\ SameInputs(calls[c], calls[d])
          => Result(calls[c]) = Result(calls[d])
    /\ \A c \in Callers :
          /\ calls[c].pc \in {"done", "raised"}
          /\ calls[c].prev # NoValue
          /\ calls[c].prev.copies = calls[c].copies
          => Result(calls[c]) = [exc |-> calls[c].prev.exc, ret |-> calls[c].prev.ret]

\* a step of forward changes neither latent_size nor the four tensors of any
\* call in progress, nor anything of another caller's call
InputsUntouched ==
    /\ latent_size' = latent_size
    /\ \A c \in Callers :
          \/ calls'[c] = calls[c]
          \/ /\ \A d \in Callers \ {c} : calls'[d] = calls[d]
             /\ calls[c].pc \notin {"done", "raised"} => SameInputs(calls'[c], calls[c])

\* C8: latent_size and the inputs of every call are never changed, no call
\* touches the frame of another, and calls with equal inputs return equal
\* results under every interleaving.
C8_PureFunction == [][InputsUntouched]_vars /\ []EqualInputsEqualResults

C8_Witness ==
    /\ Done(calls["a"]) /\ Done(calls["b"])
    /\ SameInputs(calls["a"], calls["b"])
    /\ calls["a"].ret = calls["b"].ret
    /\ calls["a"].prev # NoValue /\ calls["b"].prev = NoValue
    /\ Rows(calls["a"].x) = 2

----------------------------------------------------------------------------
(* C9: the divisor of the regularization term *)

\* C9 as claimed: the summed KL is divided by the batch size of the
\* posterior, mu.shape[0].
C9_DividedByPosteriorBatch ==
    \A c \in Callers :
        LET f == calls[c]
        IN  Averaged(f) /\ Shape(f.mu) = Shape(f.std) =>
                f.first_term = Div(SumAll(f.kl), Q(Rows(f.mu), 1))

\* C9 as it holds: the summed KL is divided by x.shape[0], the batch size of
\* the target; when mu.shape[0] differs from it and the sum is not 0, the
\* term is not the sum divided by the batch size of the posterior.
C9_DividedByTargetBatch ==
    \A c \in Callers :
        LET f == calls[c]
        IN  Averaged(f) =>
              /\ f.first_term = Div(SumAll(f.kl), Q(Rows(f.x), 1))
              /\ Rows(f.mu) # Rows(f.x) /\ SumAll(f.kl) # Zero =>
                    f.first_term # Div(SumAll(f.kl), Q(Rows(f.mu), 1))

C9_Witness ==
    LET f == calls["a"]
    IN  /\ Done(f) /\ Rows(f.mu) = 3 /\ Rows(f.std) = 3 /\ Rows(f.x) = 2
        /\ f.first_term = Div(SumAll(f.kl), Q(2, 1))
        /\ Sign(f.first_term) = 1

----------------------------------------------------------------------------
(* C10: the number of KL terms *)

Count(t) == Rows(t) * Cols(t)

PriorIsStandard(f) ==
    f.prior # NoValue =>
        f.prior = [loc |-> Fill(1, latent_size, Zero), scale |-> Fill(1, latent_size, One)]

\* C10 as claimed: the prior has latent_size entries, and the summed KL has
\* mu.shape[0] * mu.shape[1] terms whatever the last dimension of mu is.
C10_OneTermPerPosteriorElement ==
    \A c \in Callers :
        LET f == calls[c]
        IN  /\ PriorIsStandard(f)
            /\ HasKL(f) /\ Shape(f.mu) = Shape(f.std) => Count(f.kl) = Count(f.mu)

\* C10 as it holds: the prior is rebuilt with latent_size entries of mean 0
\* and std 1 on every call.  The KL has one term per element of the
\* broadcast of mu, std and the prior: with mu and std of one shape that is
\* mu.shape[0] * mu.shape[1] terms when mu.shape[1] = latent_size or
\* latent_size = 1, but mu.shape[0] * latent_size terms when mu.shape[1] = 1,
\* without any error; a last dimension that is neither raises.
C10_OneTermPerBroadcastElement ==
    \A c \in Callers :
        LET f == calls[c]
            rows == BroadcastDim(Rows(f.mu), Rows(f.std))
            cols == BroadcastDim(Cols(f.mu), Cols(f.std))
        IN  /\ PriorIsStandard(f)
            /\ HasKL(f) =>
                  /\ Shape(f.kl) = <<rows, BroadcastDim(cols, latent_size)>>
                  /\ Shape(f.mu) = Shape(f.std) /\ Cols(f.mu) = 1
                        => Count(f.kl) = Rows(f.mu) * latent_size
                  /\ Shape(f.mu) = Shape(f.std) /\ (Cols(f.mu) = latent_size \/ latent_size = 1)
                        => Count(f.kl) = Count(f.mu)
            /\ /\ f.pc \in {"done", "raised"}
               /\ Shape(f.mu) = Shape(f.std)
               /\ Cols(f.mu) \notin {1, latent_size} /\ latent_size # 1
               /\ ScalePositive(f.std)
               => Raised(f) /\ f.exc = "RuntimeError" /\ ~HasKL(f)

C10_Witness ==
    LET f == calls["a"]
    IN  /\ Done(f) /\ latent_size = 3
        /\ Shape(f.mu) = <<2, 1>> /\ Shape(f.std) = <<2, 1>>
        /\ Count(f.kl) = 6 /\ Count(f.mu) = 2

============================================================================
